---- MODULE Spec2Model ----
(***************************************************************************)
(* Peer / device reconciliation engine of wg-portal (package server).      *)
(*                                                                         *)
(* Three stores are kept aligned by the lifecycle operations of Server:    *)
(*   peers   - the Peer Repository (database), keyed by public key         *)
(*   wg      - the live WireGuard interface (Interface Controller)         *)
(*   cfgFile - the generated <device>.conf file                            *)
(* plus the User Repository (users) and the peer drafts that callers hold  *)
(* between PrepareNewPeer and CreatePeer (drafts).                         *)
(*                                                                         *)
(* Every exported method of Server is one operator over a "world" record   *)
(* [peers, wg, file, users, ev, err]; ev is the sequence of collaborator   *)
(* calls the method made, err the phase whose failure it returned.  An     *)
(* action applies one method to the current state (World) and commits the  *)
(* world it returns.                                                       *)
(***************************************************************************)
EXTENDS Integers, Sequences, FiniteSets, TLC

VARIABLES peers, wg, cfgFile, users, drafts, config, calls

vars == <<peers, wg, cfgFile, users, drafts, config, calls>>

(***************************************************************************)
(* Bounds of the model.                                                    *)
(***************************************************************************)
NumKeys == 2        \* key pairs that can exist
NumPools == 1       \* address pools (CIDRs) of the device
PoolSize == 3       \* usable host addresses per pool
MaxTime == 1        \* distinct values time.Now() can return
MaxDrafts == 1      \* peer drafts callers hold at the same time

Keys == 1..NumKeys
Emails == {"alice", "bob"}
Devices == {"wg0"}
Times == 1..MaxTime
Pools == 1..NumPools

Nil == 0            \* nil pointer / empty string / absent value
NoErr == "none"

(***************************************************************************)
(* Addresses.  <<p, o>> is the address at offset o of pool p; offset 0 is  *)
(* the network address and PoolSize + 1 the broadcast address of the pool. *)
(* <<0, 1>> is an address outside every pool of the device.                *)
(***************************************************************************)
Addr(p, o) == <<p, o>>
HostOffsets == 1..PoolSize
PoolAddrs(p) == {Addr(p, o) : o \in 0..(PoolSize + 1)}
OutsideAddr == Addr(0, 1)

GetDevice(device) == [DeviceName |-> device, IPs |-> [i \in Pools |-> i]]

SeqRange(s) == {s[i] : i \in DOMAIN s}

\* the keys in S in ascending order (the order rows are read back in)
RECURSIVE SortedKeys(_)
SortedKeys(S) ==
    IF S = {} THEN <<>>
    ELSE LET m == CHOOSE x \in S : \A y \in S : x <= y
         IN <<m>> \o SortedKeys(S \ {m})

\* md5 fingerprint of the public key, prefixed with "u"
Fingerprint(publicKey) == <<"u", publicKey>>

(***************************************************************************)
(* The world the methods act on.                                           *)
(***************************************************************************)
World == [peers |-> peers, wg |-> wg, file |-> cfgFile, users |-> users,
          ev |-> <<>>, err |-> NoErr]

Ev(c, k) == [c |-> c, k |-> k]
Called(w, c, k) == \E i \in DOMAIN w.ev : w.ev[i] = Ev(c, k)
Fail(w, phase) == [w EXCEPT !.err = phase]

(***************************************************************************)
(* Pointers to time.Time values.  Go compares pointers by address: a       *)
(* pointer is modelled as the variable it points to (addr) and the time    *)
(* stored there (val).                                                     *)
(*   "row"    - the field of a record loaded from the database             *)
(*   "caller" - a local variable of the calling function (now)             *)
(*   "param"  - the parameter updateTime of UpdatePeer: the callee's own   *)
(*              copy of the argument, which no caller can point to         *)
(***************************************************************************)
Ptr(a, v) == [addr |-> a, val |-> v]
NilPtr == Ptr("nil", 0)
AddrOf(variable, v) == Ptr(variable, v)
PtrEq(p, q) == p.addr = q.addr

\* wireguard.Peer{}: the zero value of a peer
EmptyPeer ==
    [PublicKey |-> Nil, PrivateKey |-> Nil, Email |-> "", IPs |-> <<>>,
     DeviceName |-> "", DeactivatedAt |-> NilPtr, UID |-> Fingerprint(Nil)]

(***************************************************************************)
(* Peer Repository (internal/wireguard peer manager).                      *)
(***************************************************************************)
PeersOfDevice(w, device) ==
    {k \in DOMAIN w.peers : w.peers[k].DeviceName = device}

ReservedIps(w, device) ==
    UNION {SeqRange(w.peers[k].IPs) : k \in PeersOfDevice(w, device)}

\* first free host address of the pool, in ascending order
GetAvailableIp(w, device, pool) ==
    LET free == {o \in HostOffsets : Addr(pool, o) \notin ReservedIps(w, device)}
    IN IF free = {} THEN [ok |-> FALSE, ip |-> OutsideAddr]
       ELSE [ok |-> TRUE,
             ip |-> Addr(pool, CHOOSE o \in free : \A x \in free : o <= x)]

\* the live peer of the interface attached to a loaded record (nil when the
\* interface does not hold the key)
LivePeer(w, device, publicKey) ==
    device \in Devices /\ publicKey \in w.wg[device]

GetPeerByKey(w, publicKey) ==
    IF publicKey \in DOMAIN w.peers
    THEN [found |-> TRUE, rec |-> w.peers[publicKey],
          Peer |-> LivePeer(w, w.peers[publicKey].DeviceName, publicKey)]
    ELSE [found |-> FALSE, rec |-> EmptyPeer, Peer |-> FALSE]

GetPeersByMail(w, email) ==
    SortedKeys({k \in DOMAIN w.peers : w.peers[k].Email = email})

GetActivePeers(w, device) ==
    SortedKeys({k \in PeersOfDevice(w, device) :
                    w.peers[k].DeactivatedAt = NilPtr})

\* a row stores the time, not the pointer it came from
Row(peer) ==
    [peer EXCEPT !.DeactivatedAt =
        IF @ = NilPtr THEN NilPtr ELSE Ptr("row", @.val)]

DbCreatePeer(w, peer) ==
    [w EXCEPT !.peers = (peer.PublicKey :> Row(peer)) @@ w.peers,
              !.ev = Append(@, Ev("db.CreatePeer", peer.PublicKey))]

DbUpdatePeer(w, peer) ==
    [w EXCEPT !.peers = (peer.PublicKey :> Row(peer)) @@ w.peers,
              !.ev = Append(@, Ev("db.UpdatePeer", peer.PublicKey))]

DbDeletePeer(w, peer) ==
    [w EXCEPT !.peers = [k \in DOMAIN w.peers \ {peer.PublicKey} |-> w.peers[k]],
              !.ev = Append(@, Ev("db.DeletePeer", peer.PublicKey))]

(***************************************************************************)
(* Interface Controller (internal/wireguard manager over wgctrl).          *)
(***************************************************************************)
WgAddPeer(w, device, publicKey) ==
    [w EXCEPT !.wg[device] = @ \cup {publicKey},
              !.ev = Append(@, Ev("wg.AddPeer", publicKey))]

WgUpdatePeer(w, device, publicKey) ==
    [w EXCEPT !.ev = Append(@, Ev("wg.UpdatePeer", publicKey))]

WgRemovePeer(w, device, publicKey) ==
    [w EXCEPT !.wg[device] = @ \ {publicKey},
              !.ev = Append(@, Ev("wg.RemovePeer", publicKey))]

(***************************************************************************)
(* Config Renderer: the device's active peers, each with its key and its   *)
(* addresses.                                                              *)
(***************************************************************************)
GetConfigFile(w, device, activePeers) ==
    [i \in DOMAIN activePeers |->
        [PublicKey |-> activePeers[i], IPs |-> w.peers[activePeers[i]].IPs]]

NoFile == [written |-> FALSE, body |-> <<>>]

(***************************************************************************)
(* Server.WriteWireGuardConfigFile                                         *)
(***************************************************************************)
WriteWireGuardConfigFile(w, device, fail) ==
    IF config.ConfigDirectoryPath = "" THEN w
    ELSE IF fail = "file" THEN Fail(w, "file")
    ELSE [w EXCEPT
            !.file[device] =
                [written |-> TRUE,
                 body |-> GetConfigFile(w, device, GetActivePeers(w, device))],
            !.ev = Append(@, Ev("file.Write", Nil))]

(***************************************************************************)
(* Address allocation loop shared by PrepareNewPeer and CreatePeer: one    *)
(* GetAvailableIp per pool of the device, in pool order.                   *)
(***************************************************************************)
\* the loop offering the first host address of each pool, whoever holds it
AllocateIPs_FirstHost(w, device) ==
    LET dev == GetDevice(device)
    IN [ok |-> TRUE, ips |-> [i \in DOMAIN dev.IPs |-> Addr(dev.IPs[i], 1)]]

AllocateIPs(w, device) ==
    LET dev == GetDevice(device)
        got == [i \in DOMAIN dev.IPs |-> GetAvailableIp(w, device, dev.IPs[i])]
    IN [ok |-> \A i \in DOMAIN got : got[i].ok,
        ips |-> [i \in DOMAIN got |-> got[i].ip]]

\* PrepareNewPeer without its allocation loop: the draft carries no address
PrepareNewPeer_NoAllocation(w, device, newKey, fail) ==
    IF fail = "crypto" THEN [err |-> "crypto", peer |-> EmptyPeer]
    ELSE [err |-> NoErr,
          peer |-> [EmptyPeer EXCEPT !.PrivateKey = newKey,
                                     !.PublicKey = newKey,
                                     !.UID = Fingerprint(newKey)]]

(***************************************************************************)
(* Server.PrepareNewPeer: the draft, or the phase that failed.             *)
(***************************************************************************)
PrepareNewPeer(w, device, newKey, fail) ==
    LET alloc == AllocateIPs(w, device)
    IN IF ~alloc.ok THEN [err |-> "alloc", peer |-> EmptyPeer]
       ELSE IF fail = "crypto" THEN [err |-> "crypto", peer |-> EmptyPeer]
       ELSE [err |-> NoErr,
             peer |-> [EmptyPeer EXCEPT !.IPs = alloc.ips,
                                        !.PrivateKey = newKey,
                                        !.PublicKey = newKey,
                                        !.UID = Fingerprint(newKey)]]

\* CreatePeer persisting the peer without pushing it to the interface
CreatePeer_NoPush(w, device, peer, newKey, fail) ==
    LET dev == GetDevice(device)
        needIPs == Len(peer.IPs) = 0
        alloc == AllocateIPs(w, device)
        p1 == IF needIPs THEN [peer EXCEPT !.IPs = alloc.ips] ELSE peer
        needKey == p1.PrivateKey = Nil
        p2 == IF needKey
              THEN [p1 EXCEPT !.PrivateKey = newKey, !.PublicKey = newKey]
              ELSE p1
        p3 == [p2 EXCEPT !.DeviceName = dev.DeviceName,
                         !.UID = Fingerprint(p2.PublicKey)]
    IN IF needIPs /\ ~alloc.ok THEN Fail(w, "alloc")
       ELSE IF needKey /\ fail = "crypto" THEN Fail(w, "crypto")
       ELSE IF fail = "db" \/ p3.PublicKey \in DOMAIN w.peers
            THEN Fail(w, "db")
       ELSE WriteWireGuardConfigFile(DbCreatePeer(w, p3), device, fail)

\* CreatePeer persisting the peer before it pushes it to the interface
CreatePeer_PersistFirst(w, device, peer, newKey, fail) ==
    LET dev == GetDevice(device)
        needIPs == Len(peer.IPs) = 0
        alloc == AllocateIPs(w, device)
        p1 == IF needIPs THEN [peer EXCEPT !.IPs = alloc.ips] ELSE peer
        needKey == p1.PrivateKey = Nil
        p2 == IF needKey
              THEN [p1 EXCEPT !.PrivateKey = newKey, !.PublicKey = newKey]
              ELSE p1
        p3 == [p2 EXCEPT !.DeviceName = dev.DeviceName,
                         !.UID = Fingerprint(p2.PublicKey)]
        active == p3.DeactivatedAt = NilPtr
        w1 == DbCreatePeer(w, p3)
        w2 == IF active THEN WgAddPeer(w1, device, p3.PublicKey) ELSE w1
    IN IF needIPs /\ ~alloc.ok THEN Fail(w, "alloc")
       ELSE IF needKey /\ fail = "crypto" THEN Fail(w, "crypto")
       ELSE IF fail = "db" \/ p3.PublicKey \in DOMAIN w.peers
            THEN Fail(w, "db")
       ELSE IF active /\ fail = "wg" THEN Fail(w1, "wg")
       ELSE WriteWireGuardConfigFile(w2, device, fail)

(***************************************************************************)
(* Server.CreatePeer                                                       *)
(***************************************************************************)
CreatePeer(w, device, peer, newKey, fail) ==
    LET dev == GetDevice(device)
        needIPs == Len(peer.IPs) = 0
        alloc == AllocateIPs(w, device)
        p1 == IF needIPs THEN [peer EXCEPT !.IPs = alloc.ips] ELSE peer
        needKey == p1.PrivateKey = Nil
        p2 == IF needKey
              THEN [p1 EXCEPT !.PrivateKey = newKey, !.PublicKey = newKey]
              ELSE p1
        p3 == [p2 EXCEPT !.DeviceName = dev.DeviceName,
                         !.UID = Fingerprint(p2.PublicKey)]
        active == p3.DeactivatedAt = NilPtr
        w1 == IF active THEN WgAddPeer(w, device, p3.PublicKey) ELSE w
    IN IF needIPs /\ ~alloc.ok THEN Fail(w, "alloc")
       ELSE IF needKey /\ fail = "crypto" THEN Fail(w, "crypto")
       ELSE IF active /\ fail = "wg" THEN Fail(w, "wg")
       ELSE IF fail = "db" \/ p3.PublicKey \in DOMAIN w1.peers
            THEN Fail(w1, "db")
       ELSE WriteWireGuardConfigFile(DbCreatePeer(w1, p3), device, fail)

(***************************************************************************)
(* Injected failures.  A call is given the phase in which a collaborator   *)
(* fails (NoErr: none does).                                               *)
(***************************************************************************)
Phases == {NoErr, "crypto", "wg", "db", "file"}

\* what can fail during a user operation: the user repository write, the
\* creation of the peer, or the UpdatePeer calls for the owned peers in
\* `peers` (each in the same phase)
NoFails == [user |-> FALSE, create |-> NoErr, peers |-> {}, phase |-> NoErr]

FailSets(FP) ==
    {NoFails}
    \cup {[NoFails EXCEPT !.user = TRUE] : x \in {"userdb"} \cap FP}
    \cup {[NoFails EXCEPT !.create = f] : f \in (FP \cap Phases) \ {NoErr}}
    \cup {[NoFails EXCEPT !.peers = K, !.phase = f] :
             K \in SUBSET Keys \ {{}},
             f \in (FP \cap Phases) \ {NoErr, "crypto"}}

\* the phase that fails in the UpdatePeer call for peer k
PeerFail(fails, k) == IF k \in fails.peers THEN fails.phase ELSE NoErr

\* UpdatePeer rewriting the config file before it writes the row
UpdatePeer_WriteFirst(w, peer, updateTime, fail) ==
    LET currentPeer == GetPeerByKey(w, peer.PublicKey)
        deactivating == PtrEq(peer.DeactivatedAt, AddrOf("param", updateTime))
        updating == peer.DeactivatedAt = NilPtr /\ currentPeer.Peer
        adding == peer.DeactivatedAt = NilPtr /\ ~currentPeer.Peer
        w1 == IF deactivating THEN WgRemovePeer(w, peer.DeviceName, peer.PublicKey)
              ELSE IF updating THEN WgUpdatePeer(w, peer.DeviceName, peer.PublicKey)
              ELSE IF adding THEN WgAddPeer(w, peer.DeviceName, peer.PublicKey)
              ELSE w
        w2 == WriteWireGuardConfigFile(w1, peer.DeviceName, fail)
    IN IF (deactivating \/ updating \/ adding) /\ fail = "wg" THEN Fail(w, "wg")
       ELSE IF w2.err # NoErr THEN w2
       ELSE IF fail = "db" THEN Fail(w2, "db")
       ELSE DbUpdatePeer(w2, peer)

\* UpdatePeer without the case that adds a peer the interface lacks
UpdatePeer_NoAdd(w, peer, updateTime, fail) ==
    LET currentPeer == GetPeerByKey(w, peer.PublicKey)
        deactivating == PtrEq(peer.DeactivatedAt, AddrOf("param", updateTime))
        updating == peer.DeactivatedAt = NilPtr /\ currentPeer.Peer
        w1 == IF deactivating THEN WgRemovePeer(w, peer.DeviceName, peer.PublicKey)
              ELSE IF updating THEN WgUpdatePeer(w, peer.DeviceName, peer.PublicKey)
              ELSE w
    IN IF (deactivating \/ updating) /\ fail = "wg" THEN Fail(w, "wg")
       ELSE IF fail = "db" THEN Fail(w1, "db")
       ELSE WriteWireGuardConfigFile(DbUpdatePeer(w1, peer), peer.DeviceName, fail)

(***************************************************************************)
(* Server.UpdatePeer.  updateTime is passed by value, so &updateTime is    *)
(* the address of the parameter itself.                                    *)
(***************************************************************************)
UpdatePeer(w, peer, updateTime, fail) ==
    LET currentPeer == GetPeerByKey(w, peer.PublicKey)
        deactivating == PtrEq(peer.DeactivatedAt, AddrOf("param", updateTime))
        updating == peer.DeactivatedAt = NilPtr /\ currentPeer.Peer
        adding == peer.DeactivatedAt = NilPtr /\ ~currentPeer.Peer
        w1 == IF deactivating THEN WgRemovePeer(w, peer.DeviceName, peer.PublicKey)
              ELSE IF updating THEN WgUpdatePeer(w, peer.DeviceName, peer.PublicKey)
              ELSE IF adding THEN WgAddPeer(w, peer.DeviceName, peer.PublicKey)
              ELSE w
    IN IF (deactivating \/ updating \/ adding) /\ fail = "wg" THEN Fail(w, "wg")
       ELSE IF fail = "db" THEN Fail(w1, "db")
       ELSE WriteWireGuardConfigFile(DbUpdatePeer(w1, peer), peer.DeviceName, fail)

\* DeletePeer putting the peer back on the interface when the repository
\* failed to delete it
DeletePeer_Rollback(w, peer, fail) ==
    IF fail = "wg" THEN Fail(w, "wg")
    ELSE IF fail = "db" THEN Fail(w, "db")
    ELSE WriteWireGuardConfigFile(
             DbDeletePeer(WgRemovePeer(w, peer.DeviceName, peer.PublicKey), peer),
             peer.DeviceName, fail)

\* DeletePeer that deletes the record and leaves the interface alone
DeletePeer_KeepLive(w, peer, fail) ==
    IF fail = "wg" THEN Fail(w, "wg")
    ELSE IF fail = "db" THEN Fail(w, "db")
    ELSE WriteWireGuardConfigFile(DbDeletePeer(w, peer), peer.DeviceName, fail)

(***************************************************************************)
(* Server.DeletePeer                                                       *)
(***************************************************************************)
DeletePeer(w, peer, fail) ==
    IF fail = "wg" THEN Fail(w, "wg")
    ELSE IF fail = "db"
         THEN Fail(WgRemovePeer(w, peer.DeviceName, peer.PublicKey), "db")
    ELSE WriteWireGuardConfigFile(
             DbDeletePeer(WgRemovePeer(w, peer.DeviceName, peer.PublicKey), peer),
             peer.DeviceName, fail)

(***************************************************************************)
(* Server.RestoreWireGuardInterface.  activePeers is read once, each       *)
(* record with the live peer it had at that moment (w0); the AddPeer call  *)
(* for failKey fails.                                                      *)
(***************************************************************************)
\* the loop without the test on the snapshot's Peer field
RECURSIVE RestoreLoop_AlwaysAdd(_, _, _, _, _)
RestoreLoop_AlwaysAdd(w, w0, device, activePeers, failKey) ==
    IF activePeers = <<>> THEN w
    ELSE LET k == Head(activePeers)
         IN IF k = failKey THEN Fail(w, "wg")
            ELSE RestoreLoop_AlwaysAdd(WgAddPeer(w, device, k), w0, device,
                                       Tail(activePeers), failKey)

\* the loop going on to the next peer after an AddPeer that failed
RECURSIVE RestoreLoop_SkipFailed(_, _, _, _, _)
RestoreLoop_SkipFailed(w, w0, device, activePeers, failKey) ==
    IF activePeers = <<>> THEN w
    ELSE LET k == Head(activePeers)
         IN IF LivePeer(w0, device, k) \/ k = failKey
            THEN RestoreLoop_SkipFailed(w, w0, device, Tail(activePeers), failKey)
            ELSE RestoreLoop_SkipFailed(WgAddPeer(w, device, k), w0, device,
                                        Tail(activePeers), failKey)

RECURSIVE RestoreLoop(_, _, _, _, _)
RestoreLoop(w, w0, device, activePeers, failKey) ==
    IF activePeers = <<>> THEN w
    ELSE LET k == Head(activePeers)
         IN IF LivePeer(w0, device, k)
            THEN RestoreLoop(w, w0, device, Tail(activePeers), failKey)
            ELSE IF k = failKey THEN Fail(w, "wg")
            ELSE RestoreLoop(WgAddPeer(w, device, k), w0, device,
                             Tail(activePeers), failKey)

RestoreWireGuardInterface(w, device, failKey) ==
    RestoreLoop(w, w, device, GetActivePeers(w, device), failKey)

(***************************************************************************)
(* User Repository (internal/users manager).  A user is "absent",          *)
(* "active" or "deleted" (soft-deleted: DeletedAt.Valid).                  *)
(***************************************************************************)
GetUserUnscoped(w, email) == w.users[email]
GetUser(w, email) == IF w.users[email] = "active" THEN "active" ELSE "absent"

DbSetUser(w, call, email, state) ==
    [w EXCEPT !.users[email] = state, !.ev = Append(@, Ev(call, email))]

(***************************************************************************)
(* The batch of UpdatePeer calls of UpdateUser and DeleteUser over the     *)
(* peers read by GetPeersByMail; a failed call is logged and the loop goes *)
(* on.                                                                    *)
(***************************************************************************)
\* the batch stopping at the first UpdatePeer that fails
RECURSIVE UpdatePeers_StopOnError(_, _, _, _, _, _)
UpdatePeers_StopOnError(w, w0, list, deactivatedAt, now, fails) ==
    IF list = <<>> THEN w
    ELSE LET k == Head(list)
             peer == [w0.peers[k] EXCEPT !.DeactivatedAt = deactivatedAt]
             r == UpdatePeer(w, peer, now, PeerFail(fails, k))
         IN IF r.err = NoErr
            THEN UpdatePeers_StopOnError(r, w0, Tail(list), deactivatedAt,
                                         now, fails)
            ELSE r

RECURSIVE UpdatePeers(_, _, _, _, _, _)
UpdatePeers(w, w0, list, deactivatedAt, now, fails) ==
    IF list = <<>> THEN w
    ELSE LET k == Head(list)
             peer == [w0.peers[k] EXCEPT !.DeactivatedAt = deactivatedAt]
             r == UpdatePeer(w, peer, now, PeerFail(fails, k))
             w1 == IF r.err = NoErr THEN r
                   ELSE [r EXCEPT !.err = NoErr,
                                  !.ev = Append(@, Ev("log.Error", k))]
         IN UpdatePeers(w1, w0, Tail(list), deactivatedAt, now, fails)

(***************************************************************************)
(* Server.DeleteUser                                                       *)
(***************************************************************************)
DeleteUser(w, user, now, fails) ==
    LET currentUser == GetUserUnscoped(w, user.Email)
        w1 == DbSetUser(w, "users.DeleteUser", user.Email, "deleted")
    IN IF fails.user THEN Fail(w, "userdb")
       ELSE IF currentUser # "deleted"
            THEN UpdatePeers(w1, w1, GetPeersByMail(w1, user.Email),
                             AddrOf("caller", now), now, fails)
       ELSE w1

(***************************************************************************)
(* Server.UpdateUser                                                       *)
(***************************************************************************)
UpdateUser(w, user, now, fails) ==
    IF user.Deleted THEN DeleteUser(w, user, now, fails)
    ELSE LET currentUser == GetUserUnscoped(w, user.Email)
             w1 == DbSetUser(w, "users.UpdateUser", user.Email, "active")
         IN IF fails.user THEN Fail(w, "userdb")
            ELSE IF currentUser = "deleted"
                 THEN UpdatePeers(w1, w1, GetPeersByMail(w1, user.Email),
                                  NilPtr, now, fails)
            ELSE w1

\* CreateUserDefaultPeer without the test for peers the user already owns
CreateUserDefaultPeer_NoOwnedTest(w, email, device, newKey, fail) ==
    IF GetUser(w, email) = "absent" THEN w
    ELSE IF config.CreateDefaultPeer
         THEN CreatePeer(w, device, [EmptyPeer EXCEPT !.Email = email],
                         newKey, fail)
    ELSE w

(***************************************************************************)
(* Server.CreateUserDefaultPeer                                            *)
(***************************************************************************)
CreateUserDefaultPeer(w, email, device, newKey, fail) ==
    IF GetUser(w, email) = "absent" THEN w
    ELSE IF config.CreateDefaultPeer /\ Len(GetPeersByMail(w, email)) = 0
         THEN CreatePeer(w, device, [EmptyPeer EXCEPT !.Email = email],
                         newKey, fail)
    ELSE w

\* CreateUser without the lookup of an existing record
CreateUser_NoLookup(w, user, device, now, newKey, fails) ==
    IF user.Email = "" THEN Fail(w, "input")
    ELSE IF fails.user THEN Fail(w, "userdb")
    ELSE CreateUserDefaultPeer(
             DbSetUser(w, "users.CreateUser", user.Email,
                       IF user.Deleted THEN "deleted" ELSE "active"),
             user.Email, device, newKey, fails.create)

(***************************************************************************)
(* Server.CreateUser                                                       *)
(***************************************************************************)
CreateUser(w, user, device, now, newKey, fails) ==
    IF user.Email = "" THEN Fail(w, "input")
    ELSE IF GetUserUnscoped(w, user.Email) # "absent"
         THEN UpdateUser(w, [user EXCEPT !.Deleted = FALSE], now, fails)
    ELSE IF fails.user THEN Fail(w, "userdb")
    ELSE CreateUserDefaultPeer(
             DbSetUser(w, "users.CreateUser", user.Email,
                       IF user.Deleted THEN "deleted" ELSE "active"),
             user.Email, device, newKey, fails.create)

(***************************************************************************)
(* Server.CreatePeerByEmail                                                *)
(***************************************************************************)
CreatePeerByEmail(w, device, email, disabled, now, newKey, fails) ==
    LET w1 == IF GetUserUnscoped(w, email) = "absent"
              THEN DbSetUser(w, "users.CreateUser", email, "active")
              ELSE w
        prep == PrepareNewPeer(w1, device, newKey, fails.create)
        peer == [prep.peer EXCEPT
                    !.Email = email,
                    !.DeactivatedAt = IF disabled THEN AddrOf("caller", now)
                                      ELSE @]
    IN IF fails.user THEN Fail(w, "userdb")
       ELSE IF prep.err # NoErr THEN Fail(w1, prep.err)
       ELSE CreatePeer(w1, device, peer, newKey, fails.create)

(***************************************************************************)
(* Inputs.                                                                 *)
(***************************************************************************)
AllFailures == (Phases \ {"file"}) \cup {"userdb"}
NoFailures == {NoErr}

\* keys a key generation can return: those no store and no draft holds
UsedKeys ==
    DOMAIN peers \cup UNION {wg[d] : d \in Devices}
        \cup {d.PublicKey : d \in drafts}
NewKeys == IF Keys \subseteq UsedKeys THEN {Nil} ELSE Keys \ UsedKeys
NewKeysFor(peer) == IF peer.PrivateKey = Nil THEN NewKeys ELSE {Nil}

\* address lists a caller can pre-fill: none, the first host address of
\* each pool, or an address outside the pools
PrefilledIPs ==
    {<<>>, [i \in Pools |-> Addr(i, 1)], [i \in Pools |-> OutsideAddr]}

\* the user-operation failures that reach a call which creates no peer
UpdateFailSets(FP) == {f \in FailSets(FP) : f.create = NoErr}

\* the time pointers a caller can put into a peer it passes on
CallerTimes == {NilPtr} \cup {AddrOf("caller", t) : t \in Times}

\* key material of a pre-filled peer: none, a full key pair, or a public
\* key alone (an externally managed peer)
PrefilledKeys ==
    {<<Nil, Nil>>} \cup {<<k, k>> : k \in Keys} \cup {<<k, Nil>> : k \in Keys}

PrefilledPeers ==
    {[EmptyPeer EXCEPT !.PublicKey = kp[1], !.PrivateKey = kp[2],
                       !.UID = Fingerprint(kp[1]),
                       !.Email = e, !.IPs = ips, !.DeactivatedAt = d] :
        kp \in PrefilledKeys, e \in Emails, ips \in PrefilledIPs,
        d \in {NilPtr}}

UserInputs == [Email : Emails \cup {""}, Deleted : BOOLEAN]

(***************************************************************************)
(* Actions: one call of a method of Server.                                *)
(***************************************************************************)
\* no collaborator call failed during the call that returned r
Clean(r) ==
    /\ r.err = NoErr
    /\ \A i \in DOMAIN r.ev : r.ev[i].c # "log.Error"

Commit(r) ==
    /\ peers' = r.peers
    /\ wg' = r.wg
    /\ cfgFile' = r.file
    /\ users' = r.users

\* a generated key is never the empty key
NilFree(r) ==
    /\ Nil \notin DOMAIN r.peers
    /\ \A d \in Devices : Nil \notin r.wg[d]

\* PrepareNewPeer storing the draft's row to reserve its addresses
CallPrepareNewPeer_Reserving(device, newKey, fail, clean) ==
    LET r == PrepareNewPeer(World, device, newKey, fail)
    IN /\ Cardinality(drafts) < MaxDrafts
       /\ clean => r.err = NoErr
       /\ r.err = NoErr => newKey # Nil
       /\ drafts' = IF r.err = NoErr THEN drafts \cup {r.peer} ELSE drafts
       /\ peers' = IF r.err = NoErr THEN DbCreatePeer(World, r.peer).peers
                   ELSE peers
       /\ UNCHANGED <<wg, cfgFile, users, config, calls>>

CallPrepareNewPeer(device, newKey, fail, clean) ==
    LET r == PrepareNewPeer(World, device, newKey, fail)
    IN /\ Cardinality(drafts) < MaxDrafts
       /\ clean => r.err = NoErr
       /\ r.err = NoErr => newKey # Nil
       /\ drafts' = IF r.err = NoErr THEN drafts \cup {r.peer} ELSE drafts
       /\ UNCHANGED <<peers, wg, cfgFile, users, config, calls>>

\* CreatePeer of a draft returned by PrepareNewPeer, filled in by the caller
CallCreatePeerOfDraft(device, draft, email, deactivatedAt, fail, clean) ==
    LET peer == [draft EXCEPT !.Email = email, !.DeactivatedAt = deactivatedAt]
        r == CreatePeer(World, device, peer, Nil, fail)
    IN /\ draft \in drafts
       /\ clean => Clean(r)
       /\ Commit(r)
       /\ drafts' = drafts \ {draft}
       /\ UNCHANGED <<config, calls>>

\* CreatePeer of a peer the caller filled in itself (an import)
CallCreatePeer(device, peer, newKey, fail, clean) ==
    LET r == CreatePeer(World, device, peer, newKey, fail)
    IN /\ peer.PublicKey \notin {d.PublicKey : d \in drafts}
       /\ NilFree(r)
       /\ clean => Clean(r)
       /\ Commit(r)
       /\ UNCHANGED <<drafts, config, calls>>

CallCreatePeerByEmail(device, email, disabled, now, newKey, fails, clean) ==
    LET r == CreatePeerByEmail(World, device, email, disabled, now, newKey, fails)
    IN /\ NilFree(r)
       /\ clean => Clean(r)
       /\ Commit(r)
       /\ UNCHANGED <<drafts, config, calls>>

\* UpdatePeer of a stored peer whose DeactivatedAt the caller has set
CallUpdatePeer(publicKey, deactivatedAt, updateTime, fail, clean) ==
    /\ publicKey \in DOMAIN peers
    /\ LET peer == [peers[publicKey] EXCEPT !.DeactivatedAt = deactivatedAt]
           r == UpdatePeer(World, peer, updateTime, fail)
       IN /\ Commit(r)
    /\ UNCHANGED <<drafts, config, calls>>

CallDeletePeer(publicKey, fail, clean) ==
    /\ publicKey \in DOMAIN peers
    /\ LET r == DeletePeer(World, peers[publicKey], fail)
       IN /\ Commit(r)
    /\ UNCHANGED <<drafts, config, calls>>

CallRestoreWireGuardInterface(device, failKey, clean) ==
    LET r == RestoreWireGuardInterface(World, device, failKey)
    IN /\ Commit(r)
       /\ UNCHANGED <<drafts, config, calls>>

CallWriteWireGuardConfigFile(device, fail, clean) ==
    LET r == WriteWireGuardConfigFile(World, device, fail)
    IN /\ Commit(r)
       /\ UNCHANGED <<drafts, config, calls>>

CallCreateUser(user, device, now, newKey, fails, clean) ==
    LET r == CreateUser(World, user, device, now, newKey, fails)
    IN /\ NilFree(r)
       /\ clean => Clean(r)
       /\ Commit(r)
       /\ UNCHANGED <<drafts, config, calls>>

\* UpdateUser and DeleteUser are called for users the repository holds
CallUpdateUser(user, now, fails, clean) ==
    /\ users[user.Email] # "absent"
    /\ LET r == UpdateUser(World, user, now, fails)
       IN /\ Commit(r)
    /\ UNCHANGED <<drafts, config, calls>>

CallDeleteUser(user, now, fails, clean) ==
    /\ users[user.Email] # "absent"
    /\ LET r == DeleteUser(World, user, now, fails)
       IN /\ Commit(r)
    /\ UNCHANGED <<drafts, config, calls>>

CallCreateUserDefaultPeer(email, device, newKey, fail, clean) ==
    LET r == CreateUserDefaultPeer(World, email, device, newKey, fail)
    IN /\ NilFree(r)
       /\ clean => Clean(r)
       /\ Commit(r)
       /\ UNCHANGED <<drafts, config, calls>>

(***************************************************************************)
(* Init: the server after construction, over an empty database, an empty   *)
(* interface and no config file; the configuration is whatever was loaded. *)
(***************************************************************************)
Configs == [ConfigDirectoryPath : {"", "/etc/wireguard"},
            CreateDefaultPeer : BOOLEAN]

(***************************************************************************)
(* CreatePeer run by several requests at once.  The method takes no lock,  *)
(* so the calls it makes to its collaborators interleave: each request     *)
(* stands before one of them, holding the peer it is building.             *)
(***************************************************************************)
NumProcs == 2
Procs == 1..NumProcs
Idle == [pc |-> "idle", device |-> "", peer |-> EmptyPeer]

\* keys held by requests that have generated theirs
KeysInFlight == {calls[q].peer.PublicKey : q \in Procs} \ {Nil}

\* entry, with a peer that has neither addresses nor keys
CreatePeerBegin(p, device, email) ==
    /\ calls[p].pc = "idle"
    /\ Cardinality(DOMAIN peers) + Cardinality({q \in Procs : calls[q].pc # "idle"})
          < NumKeys
    /\ calls' = [calls EXCEPT ![p] = [pc |-> "allocate", device |-> device,
                                      peer |-> [EmptyPeer EXCEPT !.Email = email]]]
    /\ UNCHANGED <<peers, wg, cfgFile, users, drafts, config>>

\* the GetAvailableIp loop: reads the addresses the repository holds now
CreatePeerAllocate(p) ==
    LET alloc == AllocateIPs(World, calls[p].device)
    IN /\ calls[p].pc = "allocate"
       /\ calls' = [calls EXCEPT ![p] =
                       IF alloc.ok
                       THEN [@ EXCEPT !.pc = "keygen", !.peer.IPs = alloc.ips]
                       ELSE Idle]
       /\ UNCHANGED <<peers, wg, cfgFile, users, drafts, config>>

\* key generation, device name and UID
CreatePeerGenerateKey(p, newKey) ==
    /\ calls[p].pc = "keygen"
    /\ newKey \notin UsedKeys \cup KeysInFlight
    /\ calls' = [calls EXCEPT ![p] =
                    [@ EXCEPT !.pc = "push",
                              !.peer.PrivateKey = newKey,
                              !.peer.PublicKey = newKey,
                              !.peer.DeviceName = GetDevice(calls[p].device).DeviceName,
                              !.peer.UID = Fingerprint(newKey)]]
    /\ UNCHANGED <<peers, wg, cfgFile, users, drafts, config>>

\* wg.AddPeer of the new, active peer
CreatePeerPush(p) ==
    /\ calls[p].pc = "push"
    /\ Commit(WgAddPeer(World, calls[p].device, calls[p].peer.PublicKey))
    /\ calls' = [calls EXCEPT ![p].pc = "persist"]
    /\ UNCHANGED <<drafts, config>>

\* peers.CreatePeer
CreatePeerPersist(p) ==
    /\ calls[p].pc = "persist"
    /\ Commit(DbCreatePeer(World, calls[p].peer))
    /\ calls' = [calls EXCEPT ![p].pc = "write"]
    /\ UNCHANGED <<drafts, config>>

\* the trailing WriteWireGuardConfigFile, and the return
CreatePeerWrite(p) ==
    /\ calls[p].pc = "write"
    /\ Commit(WriteWireGuardConfigFile(World, calls[p].device, NoErr))
    /\ calls' = [calls EXCEPT ![p] = Idle]
    /\ UNCHANGED <<drafts, config>>

(***************************************************************************)
(* The interface restarts and comes back without peers.                    *)
(***************************************************************************)
InterfaceRestart ==
    /\ wg' = [d \in Devices |-> {}]
    /\ UNCHANGED <<peers, cfgFile, users, drafts, config, calls>>

Init ==
    /\ peers = <<>>
    /\ wg = [d \in Devices |-> {}]
    /\ cfgFile = [d \in Devices |-> NoFile]
    /\ users = [e \in Emails |-> "absent"]
    /\ drafts = {}
    /\ config \in Configs
    /\ calls = [p \in Procs |-> Idle]

Calls(FP, clean) ==
    \/ \E d \in Devices, k \in NewKeys, f \in FP \cap Phases :
          CallPrepareNewPeer(d, k, f, clean)
    \/ \E d \in Devices, p \in drafts, e \in Emails, da \in CallerTimes,
          f \in FP \cap Phases :
          CallCreatePeerOfDraft(d, p, e, da, f, clean)
    \/ \E d \in Devices, p \in PrefilledPeers, f \in FP \cap Phases :
          \E k \in NewKeysFor(p) : CallCreatePeer(d, p, k, f, clean)
    \/ \E d \in Devices, e \in Emails, dis \in BOOLEAN, t \in Times,
          k \in NewKeys, f \in FailSets(FP) :
          CallCreatePeerByEmail(d, e, dis, t, k, f, clean)
    \/ \E k \in DOMAIN peers, t \in Times, f \in FP \cap Phases :
          \E da \in CallerTimes \cup {peers[k].DeactivatedAt} :
              CallUpdatePeer(k, da, t, f, clean)
    \/ \E k \in DOMAIN peers, f \in FP \cap Phases : CallDeletePeer(k, f, clean)
    \/ \E d \in Devices, k \in {x \in Keys : "wg" \in FP} \cup {Nil} :
          CallRestoreWireGuardInterface(d, k, clean)
    \/ \E d \in Devices, f \in FP \cap Phases : CallWriteWireGuardConfigFile(d, f, clean)
    \/ \E u \in UserInputs, d \in Devices, t \in Times, k \in NewKeys,
          f \in FailSets(FP) :
          CallCreateUser(u, d, t, k, f, clean)
    \/ \E e \in Emails, del \in BOOLEAN, t \in Times, f \in UpdateFailSets(FP) :
          CallUpdateUser([Email |-> e, Deleted |-> del], t, f, clean)
    \/ \E e \in Emails, t \in Times, f \in UpdateFailSets(FP) :
          CallDeleteUser([Email |-> e, Deleted |-> FALSE], t, f, clean)
    \/ \E e \in Emails, d \in Devices, k \in NewKeys, f \in FP \cap Phases :
          CallCreateUserDefaultPeer(e, d, k, f, clean)

\* every call, with the interface, the repositories or the key generation
\* failing in it or not
Next == Calls(AllFailures, FALSE)
Spec == Init /\ [][Next]_vars

\* the calls in which no collaborator call fails
NextOK == Calls(NoFailures, TRUE)
SpecOK == Init /\ [][NextOK]_vars

\* the same calls, and interface restarts between them
NextRestart == NextOK \/ InterfaceRestart
SpecRestart == Init /\ [][NextRestart]_vars

\* the same calls, and PrepareNewPeer calls whose key generation fails
NextPrepare ==
    \/ NextOK
    \/ \E d \in Devices, k \in NewKeys : CallPrepareNewPeer(d, k, "crypto", FALSE)
SpecPrepare == Init /\ [][NextPrepare]_vars

\* concurrent creations, and deletions between their steps
NextConc ==
    \/ \E p \in Procs, d \in Devices, e \in Emails : CreatePeerBegin(p, d, e)
    \/ \E p \in Procs : CreatePeerAllocate(p)
    \/ \E p \in Procs, k \in Keys : CreatePeerGenerateKey(p, k)
    \/ \E p \in Procs : CreatePeerPush(p)
    \/ \E p \in Procs : CreatePeerPersist(p)
    \/ \E p \in Procs : CreatePeerWrite(p)
    \/ \E k \in DOMAIN peers : CallDeletePeer(k, NoErr, TRUE)
SpecConc == Init /\ [][NextConc]_vars

\* creations of peers that carry neither addresses nor keys, deactivations,
\* reactivations and deletions, none failing, with one more key than Keys
ScenarioKeys == 1..(NumKeys + 1)
NextScenario ==
    \/ \E d \in Devices, e \in Emails, k \in ScenarioKeys \ UsedKeys :
          CallCreatePeer(d, [EmptyPeer EXCEPT !.Email = e], k, NoErr, TRUE)
    \/ \E k \in DOMAIN peers, t \in Times, da \in CallerTimes :
          CallUpdatePeer(k, da, t, NoErr, TRUE)
    \/ \E k \in DOMAIN peers : CallDeletePeer(k, NoErr, TRUE)
SpecScenario == Init /\ [][NextScenario]_vars

(***************************************************************************)
(* Readings of the stores used by the properties.                          *)
(***************************************************************************)
Persisted(w, k) == k \in DOMAIN w.peers
Active(w, k) == Persisted(w, k) /\ w.peers[k].DeactivatedAt = NilPtr
Deactivated(w, k) == Persisted(w, k) /\ w.peers[k].DeactivatedAt # NilPtr
Live(w, k) == \E d \in Devices : k \in w.wg[d]
OwnedBy(w, email) == {k \in DOMAIN w.peers : w.peers[k].Email = email}
InPools(device, ip) == \E i \in DOMAIN GetDevice(device).IPs :
                            ip \in PoolAddrs(GetDevice(device).IPs[i])

\* the record a caller passes to UpdatePeer to deactivate peer k at time t:
\* the stored peer with DeactivatedAt pointing to the caller's timestamp
DeactivationOf(k, t) == [peers[k] EXCEPT !.DeactivatedAt = AddrOf("caller", t)]

(***************************************************************************)
(* C1: in every state reached by lifecycle calls in which no collaborator  *)
(* call fails, a peer persisted with DeactivatedAt set is not on the live  *)
(* interface.                                                              *)
(***************************************************************************)
C1_DeactivatedNotLive ==
    \A k \in DOMAIN peers : Deactivated(World, k) => ~Live(World, k)

(***************************************************************************)
(* C2: a successful UpdatePeer(peer, t) with peer.DeactivatedAt set to t,  *)
(* for a peer that is active and live, removes the peer from the interface *)
(* and leaves it in the repository with DeactivatedAt set.                 *)
(***************************************************************************)
C2_DeactivateRemoves ==
    \A k \in DOMAIN peers, t \in Times :
        LET r == UpdatePeer(World, DeactivationOf(k, t), t, NoErr)
        IN (Active(World, k) /\ Live(World, k) /\ r.err = NoErr)
              => /\ ~Live(r, k)
                 /\ Deactivated(r, k)

(***************************************************************************)
(* C4: DeleteUser of an active user, with no collaborator failure, leaves  *)
(* every peer owned by the user's email deactivated in the repository and  *)
(* absent from the live interface.                                         *)
(***************************************************************************)
C4_DeleteUserDeactivates ==
    \A e \in Emails, t \in Times :
        LET r == DeleteUser(World, [Email |-> e, Deleted |-> FALSE], t, NoFails)
        IN (users[e] = "active" /\ Clean(r))
              => \A k \in OwnedBy(r, e) : Deactivated(r, k) /\ ~Live(r, k)

(***************************************************************************)
(* C6: after successful peer creations, every persisted peer's addresses   *)
(* lie within the pools of its device and no two peers of a device share   *)
(* an address.                                                             *)
(***************************************************************************)
C6_AddressesUniqueInPools ==
    /\ \A k \in DOMAIN peers :
          \A ip \in SeqRange(peers[k].IPs) : InPools(peers[k].DeviceName, ip)
    /\ \A k1 \in DOMAIN peers, k2 \in DOMAIN peers :
          (k1 # k2 /\ peers[k1].DeviceName = peers[k2].DeviceName)
             => SeqRange(peers[k1].IPs) \cap SeqRange(peers[k2].IPs) = {}

(***************************************************************************)
(* What a call did, read from the collaborator calls it made.              *)
(***************************************************************************)
WgCalls == {"wg.AddPeer", "wg.UpdatePeer", "wg.RemovePeer"}
WriteCalls == {"db.CreatePeer", "db.UpdatePeer", "db.DeletePeer", "file.Write"}
Made(r, names) == \E i \in DOMAIN r.ev : r.ev[i].c \in names

\* the call's interface step failed: it returned that error, wrote neither
\* the repository nor the config file, and left all three stores as they were
GatedByInterface(r) ==
    /\ r.err = "wg"
    /\ ~Made(r, WriteCalls)
    /\ r.peers = peers
    /\ r.file = cfgFile
    /\ r.wg = wg

\* the peers a caller can hand to CreatePeer in this state
CreateInputs ==
    PrefilledPeers
        \cup {[p EXCEPT !.Email = e, !.DeactivatedAt = da] :
                 p \in drafts, e \in Emails, da \in CallerTimes}

(***************************************************************************)
(* C3: when the Interface Controller call of CreatePeer, UpdatePeer or     *)
(* DeletePeer fails, the call returns the error and neither the repository *)
(* write nor the config file rewrite happens; after a failed DeletePeer    *)
(* the peer is still persisted and, if it was live, still live.  (The      *)
(* interface call is the one the same call makes when nothing fails.)      *)
(***************************************************************************)
C3_InterfaceFailureGates ==
    /\ \A d \in Devices, p \in CreateInputs :
          \A k \in NewKeysFor(p) :
              Made(CreatePeer(World, d, p, k, NoErr), WgCalls)
                 => GatedByInterface(CreatePeer(World, d, p, k, "wg"))
    /\ \A k \in DOMAIN peers, t \in Times :
          \A da \in CallerTimes \cup {peers[k].DeactivatedAt} :
              LET peer == [peers[k] EXCEPT !.DeactivatedAt = da]
              IN Made(UpdatePeer(World, peer, t, NoErr), WgCalls)
                    => GatedByInterface(UpdatePeer(World, peer, t, "wg"))
    /\ \A k \in DOMAIN peers :
          LET r == DeletePeer(World, peers[k], "wg")
          IN /\ GatedByInterface(r)
             /\ Persisted(r, k)
             /\ Live(World, k) => Live(r, k)

\* a persisted, live peer whose DeletePeer fails at the interface, with a
\* config file on disk that the failed call leaves alone
C3_Witness ==
    \E k \in DOMAIN peers :
        LET r == DeletePeer(World, peers[k], "wg")
        IN /\ Live(World, k)
           /\ cfgFile[peers[k].DeviceName].written
           /\ r.err = "wg"
           /\ Persisted(r, k) /\ Live(r, k)
           /\ DeletePeer(World, peers[k], NoErr).peers # peers

(***************************************************************************)
(* C5: UpdateUser with a non-deleted record for a soft-deleted user, with  *)
(* no collaborator failure, leaves every peer owned by that email on the   *)
(* interface and persisted with DeactivatedAt cleared, whether the peer    *)
(* was on the interface before or not.                                     *)
(***************************************************************************)
C5_ReactivateUser ==
    \A e \in Emails, t \in Times :
        LET r == UpdateUser(World, [Email |-> e, Deleted |-> FALSE], t, NoFails)
        IN users[e] = "deleted"
              => /\ Clean(r)
                 /\ r.users[e] = "active"
                 /\ OwnedBy(r, e) = OwnedBy(World, e)
                 /\ \A k \in OwnedBy(r, e) : Live(r, k) /\ Active(r, k)

\* a soft-deleted user owning a deactivated peer that is on the interface
\* and one that is not; the reactivation puts both there, active
C5_Witness ==
    \E e \in Emails, t \in Times :
        LET r == UpdateUser(World, [Email |-> e, Deleted |-> FALSE], t, NoFails)
        IN /\ users[e] = "deleted"
           /\ \E k1 \in OwnedBy(World, e), k2 \in OwnedBy(World, e) :
                 /\ Deactivated(World, k1) /\ Live(World, k1)
                 /\ Deactivated(World, k2) /\ ~Live(World, k2)
                 /\ Live(r, k1) /\ Active(r, k1)
                 /\ Live(r, k2) /\ Active(r, k2)

(***************************************************************************)
(* C8: a successful DeletePeer removes the peer from the interface and     *)
(* from the repository, GetPeerByKey for its key then finds nothing, and   *)
(* the other peers of both stores are unchanged.                           *)
(***************************************************************************)
C8_DeletePeerRemoves ==
    \A k \in DOMAIN peers :
        LET r == DeletePeer(World, peers[k], NoErr)
        IN /\ r.err = NoErr
           /\ ~Live(r, k)
           /\ ~Persisted(r, k)
           /\ ~GetPeerByKey(r, k).found
           /\ \A j \in Keys \ {k} :
                 /\ Persisted(r, j) <=> Persisted(World, j)
                 /\ Persisted(r, j) => r.peers[j] = peers[j]
                 /\ Live(r, j) <=> Live(World, j)

\* a live, persisted peer is deleted while another peer is live and persisted
C8_Witness ==
    \E k \in DOMAIN peers, j \in DOMAIN peers :
        LET r == DeletePeer(World, peers[k], NoErr)
        IN /\ j # k
           /\ Live(World, k) /\ Live(World, j)
           /\ r.err = NoErr
           /\ ~Live(r, k) /\ ~Persisted(r, k)
           /\ Live(r, j) /\ Persisted(r, j)

(***************************************************************************)
(* C9: on an empty device and with no collaborator failure, PrepareNewPeer *)
(* followed at once by CreatePeer of the returned draft succeeds; the peer *)
(* is then retrievable from the repository by its public key and on the    *)
(* interface, with the addresses the draft was given (one per pool).       *)
(***************************************************************************)
C9_PrepareThenCreate ==
    \A d \in Devices, key \in Keys \ UsedKeys :
        LET prep == PrepareNewPeer(World, d, key, NoErr)
            r == CreatePeer(World, d, prep.peer, Nil, NoErr)
        IN PeersOfDevice(World, d) = {}
              => /\ prep.err = NoErr
                 /\ Len(prep.peer.IPs) = Len(GetDevice(d).IPs)
                 /\ r.err = NoErr
                 /\ GetPeerByKey(r, prep.peer.PublicKey).found
                 /\ prep.peer.PublicKey \in r.wg[d]
                 /\ r.peers[prep.peer.PublicKey].IPs = prep.peer.IPs

\* the draft PrepareNewPeer returned for the still empty device is held by
\* the caller, and CreatePeer of it stores it and pushes it
C9_Witness ==
    \E d \in Devices, p \in drafts :
        LET r == CreatePeer(World, d, p, Nil, NoErr)
        IN /\ PeersOfDevice(World, d) = {}
           /\ p = PrepareNewPeer(World, d, p.PublicKey, NoErr).peer
           /\ r.err = NoErr
           /\ p.PublicKey \in DOMAIN r.peers
           /\ p.PublicKey \in r.wg[d]
           /\ r.peers[p.PublicKey].IPs = p.IPs

(***************************************************************************)
(* C7: two creations running at once on one device, each allocating its    *)
(* own addresses, never persist two peers with the same address on that    *)
(* device.                                                                 *)
(***************************************************************************)
C7_ConcurrentCreateDistinct ==
    \A k1 \in DOMAIN peers, k2 \in DOMAIN peers :
        (k1 # k2 /\ peers[k1].DeviceName = peers[k2].DeviceName)
           => SeqRange(peers[k1].IPs) \cap SeqRange(peers[k2].IPs) = {}

(***************************************************************************)
(* C10: with active peers in the repository and an empty interface,        *)
(* RestoreWireGuardInterface run twice in a row leaves the live peer set   *)
(* of running it once, and the second run makes no AddPeer call.           *)
(***************************************************************************)
C10_RestoreIdempotent ==
    \A d \in Devices :
        LET r1 == RestoreWireGuardInterface(World, d, Nil)
            r2 == RestoreWireGuardInterface(r1, d, Nil)
        IN wg[d] = {}
              => /\ r1.err = NoErr /\ r2.err = NoErr
                 /\ r2.wg = r1.wg
                 /\ r2.ev = r1.ev

\* two active peers and an interface that lost them: the first run adds
\* both, the second adds none
C10_Witness ==
    \E d \in Devices :
        LET r1 == RestoreWireGuardInterface(World, d, Nil)
            r2 == RestoreWireGuardInterface(r1, d, Nil)
        IN /\ wg[d] = {}
           /\ Len(GetActivePeers(World, d)) = NumKeys
           /\ Cardinality(r1.wg[d]) = NumKeys
           /\ Len(r1.ev) = NumKeys
           /\ r2.wg = r1.wg /\ r2.ev = r1.ev

(***************************************************************************)
(* C11: CreateUser for an email that has a soft-deleted user creates no    *)
(* second user record, leaves the user un-deleted and its peers persisted  *)
(* with DeactivatedAt cleared and on the interface; CreateUser inserts a   *)
(* user record only for an email that has none, so an email never has two. *)
(***************************************************************************)
C11_CreateUserResurrects ==
    \A u \in UserInputs, d \in Devices, t \in Times, key \in NewKeys :
        LET r == CreateUser(World, u, d, t, key, NoFails)
            e == u.Email
        IN /\ Made(r, {"users.CreateUser"}) => (e # "" /\ users[e] = "absent")
           /\ (e # "" /\ users[e] = "deleted")
                 => /\ Clean(r)
                    /\ r.users[e] = "active"
                    /\ OwnedBy(r, e) = OwnedBy(World, e)
                    /\ \A k \in OwnedBy(r, e) : Live(r, k) /\ Active(r, k)

\* a soft-deleted user with a deactivated peer is created again: the record
\* is updated, not inserted, and the peer is active and live afterwards
C11_Witness ==
    \E u \in UserInputs, d \in Devices, t \in Times, key \in NewKeys :
        LET r == CreateUser(World, u, d, t, key, NoFails)
        IN /\ u.Email # ""
           /\ users[u.Email] = "deleted"
           /\ \E k \in OwnedBy(World, u.Email) : Deactivated(World, k)
           /\ Made(r, {"users.UpdateUser"})
           /\ ~Made(r, {"users.CreateUser"})
           /\ r.users[u.Email] = "active"
           /\ \A k \in OwnedBy(r, u.Email) : Live(r, k) /\ Active(r, k)

\* the call that returned r changed no store and called no collaborator
\* that writes one
NoEffect(r) ==
    /\ r.err = NoErr
    /\ r.peers = peers /\ r.wg = wg /\ r.file = cfgFile /\ r.users = users
    /\ ~Made(r, WgCalls \cup WriteCalls)

(***************************************************************************)
(* C12: CreateUserDefaultPeer changes nothing when the user does not       *)
(* exist, when the create-default-peer policy is off, or when the user     *)
(* already owns a peer; otherwise a call that succeeds creates exactly one *)
(* peer, owned by that email, and a second call right after it changes     *)
(* nothing, leaving the user with exactly one peer.                        *)
(***************************************************************************)
C12_DefaultPeerOnce ==
    \A e \in Emails, d \in Devices, key \in Keys \ UsedKeys :
        LET r == CreateUserDefaultPeer(World, e, d, key, NoErr)
            again == {CreateUserDefaultPeer(r, e, d, k2, NoErr) : k2 \in Keys}
        IN IF \/ users[e] # "active"
              \/ ~config.CreateDefaultPeer
              \/ OwnedBy(World, e) # {}
           THEN \A f \in Phases : NoEffect(CreateUserDefaultPeer(World, e, d, key, f))
           ELSE r.err = NoErr
                   => /\ DOMAIN r.peers = DOMAIN peers \cup {key}
                      /\ key \notin DOMAIN peers
                      /\ OwnedBy(r, e) = {key}
                      /\ \A j \in DOMAIN peers : r.peers[j] = peers[j]
                      /\ \A x \in again :
                            /\ x.err = NoErr
                            /\ x.peers = r.peers /\ x.wg = r.wg
                            /\ x.ev = r.ev

\* an active user without peers, the policy on: the first call creates the
\* user's one peer while another user's peer exists, the second none
C12_Witness ==
    \E e \in Emails, d \in Devices, key \in Keys \ UsedKeys :
        LET r == CreateUserDefaultPeer(World, e, d, key, NoErr)
        IN /\ users[e] = "active"
           /\ config.CreateDefaultPeer
           /\ OwnedBy(World, e) = {}
           /\ DOMAIN peers # {}
           /\ r.err = NoErr
           /\ OwnedBy(r, e) = {key}
           /\ key \in r.wg[d]
           /\ \A k2 \in Keys \ {key} :
                 CreateUserDefaultPeer(r, e, d, k2, NoErr).peers = r.peers

\* the failures of UpdatePeer calls inside a user operation whose own
\* repository write succeeds
BatchFails == {f \in UpdateFailSets(AllFailures) : ~f.user /\ f.peers # {}}

(***************************************************************************)
(* C13: in UpdateUser (reactivation) and DeleteUser (deactivation), when   *)
(* UpdatePeer fails for some owned peers, the user operation still returns *)
(* success and every other owned peer is processed: persisted with         *)
(* DeactivatedAt set (deactivation), or cleared and on the interface       *)
(* (reactivation).                                                         *)
(***************************************************************************)
C13_BatchBestEffort ==
    \A e \in Emails, t \in Times, f \in BatchFails :
        LET del == DeleteUser(World, [Email |-> e, Deleted |-> FALSE], t, f)
            upd == UpdateUser(World, [Email |-> e, Deleted |-> FALSE], t, f)
            others == OwnedBy(World, e) \ f.peers
        IN /\ users[e] # "deleted"
              => /\ del.err = NoErr
                 /\ del.users[e] = "deleted"
                 /\ \A k \in others :
                       /\ Called(del, "db.UpdatePeer", k)
                       /\ Deactivated(del, k)
           /\ users[e] = "deleted"
              => /\ upd.err = NoErr
                 /\ upd.users[e] = "active"
                 /\ \A k \in others :
                       /\ Called(upd, "db.UpdatePeer", k)
                       /\ Active(upd, k) /\ Live(upd, k)

\* a user owning two active peers is deleted and the UpdatePeer of the
\* first one fails: it is logged, and the second peer is deactivated
C13_Witness ==
    \E e \in Emails, t \in Times, f \in BatchFails :
        LET del == DeleteUser(World, [Email |-> e, Deleted |-> FALSE], t, f)
            list == GetPeersByMail(World, e)
        IN /\ users[e] = "active"
           /\ Len(list) = 2
           /\ f.peers = {list[1]}
           /\ Active(World, list[1]) /\ Active(World, list[2])
           /\ del.err = NoErr
           /\ Called(del, "log.Error", list[1])
           /\ Active(del, list[1])
           /\ Deactivated(del, list[2])

\* the addresses PrepareNewPeer offers for a device in world w
Offered(w, device) == PrepareNewPeer(w, device, Nil, NoErr).peer.IPs

(***************************************************************************)
(* C14: a PrepareNewPeer call, successful or failed, leaves the            *)
(* repository's peers, the interface's peers and the config file as they   *)
(* were, so the next PrepareNewPeer is offered the same addresses.         *)
(***************************************************************************)
C14_PrepareIsPure ==
    [][\/ /\ peers' = peers
          /\ wg' = wg
          /\ cfgFile' = cfgFile
          /\ \A d \in Devices : Offered(World', d) = Offered(World, d)
       \/ ~\E d \in Devices, k \in NewKeys, f \in Phases :
              CallPrepareNewPeer(d, k, f, FALSE)]_vars

\* the caller holds a draft of PrepareNewPeer while the device has a peer,
\* and a second call is offered the draft's addresses
C14_Witness ==
    \E p \in drafts, d \in Devices :
        /\ PrepareNewPeer(World, d, Nil, NoErr).err = NoErr
        /\ PeersOfDevice(World, d) # {}
        /\ Len(p.IPs) = NumPools
        /\ \A k \in PeersOfDevice(World, d) :
              SeqRange(peers[k].IPs) \cap SeqRange(p.IPs) = {}
        /\ Offered(World, d) = p.IPs

\* the peer CreatePeer is given when it is to allocate addresses and keys
NewPeer(email) == [EmptyPeer EXCEPT !.Email = email]

\* create A, create B, deactivate A, create C on device d, nothing failing
ScenarioABC(d, e, t) ==
    LET wA == CreatePeer(World, d, NewPeer(e), 1, NoErr)
        wB == CreatePeer(wA, d, NewPeer(e), 2, NoErr)
        wD == UpdatePeer(wB, [wB.peers[1] EXCEPT
                                 !.DeactivatedAt = AddrOf("caller", t)],
                         t, NoErr)
    IN CreatePeer(wD, d, NewPeer(e), 3, NoErr)

(***************************************************************************)
(* C15: an address held by a persisted peer of the device, active or       *)
(* deactivated, is never assigned to a newly created peer; deactivating a  *)
(* peer keeps its address reserved and deleting it frees the address; on   *)
(* an empty device with one pool, creating A, creating B, deactivating A   *)
(* and creating C gives A, B, C the first three host addresses in that     *)
(* order.                                                                  *)
(***************************************************************************)
C15_DeactivatedKeepAddress ==
    \A d \in Devices, e \in Emails :
        /\ \A key \in ScenarioKeys \ UsedKeys :
              LET r == CreatePeer(World, d, NewPeer(e), key, NoErr)
              IN r.err = NoErr
                    => /\ Len(r.peers[key].IPs) = NumPools
                       /\ SeqRange(r.peers[key].IPs) \cap ReservedIps(World, d) = {}
        /\ \A k \in PeersOfDevice(World, d), t \in Times :
              LET off == UpdatePeer(World, DeactivationOf(k, t), t, NoErr)
                  del == DeletePeer(World, peers[k], NoErr)
              IN /\ off.err = NoErr /\ Deactivated(off, k)
                 /\ SeqRange(Offered(off, d)) \cap SeqRange(peers[k].IPs) = {}
                 /\ del.err = NoErr
                 /\ SeqRange(peers[k].IPs) \cap ReservedIps(del, d) = {}
                 /\ Offered(del, d) = [i \in Pools |->
                       Addr(i, CHOOSE o \in HostOffsets :
                                 /\ Addr(i, o) \notin ReservedIps(del, d)
                                 /\ \A x \in HostOffsets :
                                       Addr(i, x) \notin ReservedIps(del, d)
                                          => o <= x)]
        /\ PeersOfDevice(World, d) = {}
              => \A t \in Times :
                    LET r == ScenarioABC(d, e, t)
                    IN /\ r.err = NoErr
                       /\ Deactivated(r, 1)
                       /\ \A i \in 1..3 :
                             r.peers[i].IPs = [p \in Pools |-> Addr(p, i)]

\* three peers of the device: A, deactivated, still holds the first host
\* address, B the second and C the third
C15_Witness ==
    \E d \in Devices, a \in DOMAIN peers, b \in DOMAIN peers, c \in DOMAIN peers :
        /\ Deactivated(World, a) /\ Active(World, b) /\ Active(World, c)
        /\ PeersOfDevice(World, d) = {a, b, c}
        /\ peers[a].IPs = [p \in Pools |-> Addr(p, 1)]
        /\ peers[b].IPs = [p \in Pools |-> Addr(p, 2)]
        /\ peers[c].IPs = [p \in Pools |-> Addr(p, 3)]
        /\ a < b /\ b < c

(***************************************************************************)
(* C16: a RestoreWireGuardInterface(device) that succeeds leaves every     *)
(* active peer of the device on the interface and the repository as it     *)
(* was, and makes no AddPeer call for a peer that was on the interface     *)
(* already; when an AddPeer fails, the pass returns the error and adds no  *)
(* peer that comes later in the list.                                      *)
(***************************************************************************)
C16_RestorePostcondition ==
    \A d \in Devices :
        LET list == GetActivePeers(World, d)
            ok == RestoreWireGuardInterface(World, d, Nil)
        IN /\ ok.err = NoErr
           /\ ok.peers = peers
           /\ \A i \in DOMAIN list : list[i] \in ok.wg[d]
           /\ \A k \in wg[d] : ~Called(ok, "wg.AddPeer", k)
           /\ \A i \in DOMAIN list :
                 LET bad == RestoreWireGuardInterface(World, d, list[i])
                 IN list[i] \notin wg[d]
                       => /\ bad.err = "wg"
                          /\ bad.peers = peers
                          /\ \A j \in DOMAIN list :
                                j >= i => /\ ~Called(bad, "wg.AddPeer", list[j])
                                          /\ list[j] \in bad.wg[d] <=> list[j] \in wg[d]

\* two active peers, neither on the interface: the pass adds both, and
\* adds neither when the AddPeer of the first fails
C16_Witness ==
    \E d \in Devices :
        LET list == GetActivePeers(World, d)
            ok == RestoreWireGuardInterface(World, d, Nil)
        IN /\ Len(list) = 2
           /\ wg[d] = {}
           /\ ok.err = NoErr
           /\ ok.wg[d] = {list[1], list[2]}
           /\ RestoreWireGuardInterface(World, d, list[1]).err = "wg"
           /\ RestoreWireGuardInterface(World, d, list[1]).wg[d] = {}

(***************************************************************************)
(* C17: in every state reached by completed calls in which no collaborator *)
(* call fails, every peer persisted with DeactivatedAt unset is on the     *)
(* interface.                                                              *)
(***************************************************************************)
C17_ActiveLive ==
    \A k \in DOMAIN peers : Active(World, k) => Live(World, k)

\* an active peer on the interface next to a peer that was created
\* deactivated, is off the interface, and is on it once reactivated
C17_Witness ==
    \E k \in DOMAIN peers, j \in DOMAIN peers, t \in Times :
        LET r == UpdatePeer(World, [peers[j] EXCEPT !.DeactivatedAt = NilPtr],
                            t, NoErr)
        IN /\ Active(World, k) /\ Live(World, k)
           /\ Deactivated(World, j) /\ ~Live(World, j)
           /\ r.err = NoErr
           /\ Active(r, j) /\ Live(r, j)

\* the call returned r after its interface step succeeded as in the run ok
\* and its repository write failed: the error is returned, the interface
\* is as the interface step left it, the repository and the file as before
NotRolledBack(r, ok) ==
    /\ r.err = "db"
    /\ Made(r, WgCalls)
    /\ r.wg = ok.wg
    /\ r.peers = peers
    /\ r.file = cfgFile
    /\ ~Made(r, {"file.Write"})

(***************************************************************************)
(* C18: when the interface step of CreatePeer, UpdatePeer or DeletePeer    *)
(* succeeds and the repository write that follows fails, the call returns  *)
(* an error, the interface keeps its new state (a created peer is on it    *)
(* without being persisted, a deleted peer is off it and still persisted)  *)
(* and the config file is not rewritten.                                   *)
(***************************************************************************)
C18_NoRollback ==
    /\ \A d \in Devices, p \in CreateInputs :
          \A k \in NewKeysFor(p) :
              LET ok == CreatePeer(World, d, p, k, NoErr)
                  r == CreatePeer(World, d, p, k, "db")
                  key == IF p.PrivateKey = Nil THEN k ELSE p.PublicKey
              IN Made(ok, WgCalls)
                    => /\ NotRolledBack(r, ok)
                       /\ key \in r.wg[d]
                       /\ Persisted(r, key) <=> Persisted(World, key)
    /\ \A k \in DOMAIN peers, t \in Times :
          \A da \in CallerTimes \cup {peers[k].DeactivatedAt} :
              LET peer == [peers[k] EXCEPT !.DeactivatedAt = da]
                  ok == UpdatePeer(World, peer, t, NoErr)
              IN Made(ok, WgCalls)
                    => /\ NotRolledBack(UpdatePeer(World, peer, t, "db"), ok)
                       /\ Live(UpdatePeer(World, peer, t, "db"), k)
    /\ \A k \in DOMAIN peers :
          LET r == DeletePeer(World, peers[k], "db")
          IN /\ NotRolledBack(r, DeletePeer(World, peers[k], NoErr))
             /\ ~Live(r, k)
             /\ Persisted(r, k)

\* with a config file on disk: deleting a live peer ends with the peer off
\* the interface and persisted, creating one with the peer on the
\* interface and not persisted, when the repository write fails
C18_Witness ==
    \E k \in DOMAIN peers, key \in Keys \ UsedKeys, e \in Emails :
        LET d == peers[k].DeviceName
            del == DeletePeer(World, peers[k], "db")
            new == CreatePeer(World, d, NewPeer(e), key, "db")
        IN /\ Live(World, k)
           /\ cfgFile[d].written
           /\ del.err = "db" /\ ~Live(del, k) /\ Persisted(del, k)
           /\ new.err = "db" /\ Live(new, key) /\ ~Persisted(new, key)
           /\ del.file = cfgFile /\ new.file = cfgFile

\* the config file of the device as rendered from the repository of w
Rendered(w, device) ==
    [written |-> TRUE,
     body |-> GetConfigFile(w, device, GetActivePeers(w, device))]

DbPeerCalls == {"db.CreatePeer", "db.UpdatePeer", "db.DeletePeer"}

\* the call that returned r rewrote the file, if at all, as its last step
\* and after its repository write; if it succeeded with an output directory
\* configured, the file is the rendering of the repository it left
FollowsPersistence(r, device) ==
    /\ Made(r, {"file.Write"})
          => /\ r.ev[Len(r.ev)].c = "file.Write"
             /\ Len(r.ev) > 1
             /\ r.ev[Len(r.ev) - 1].c \in DbPeerCalls
             /\ r.file[device] = Rendered(r, device)
    /\ (r.err = NoErr /\ config.ConfigDirectoryPath # "")
          => /\ Made(r, {"file.Write"})
             /\ r.file[device] = Rendered(r, device)

(***************************************************************************)
(* C19: CreatePeer, UpdatePeer and DeletePeer rewrite the config file only *)
(* after their repository write succeeded, with the rendering of the       *)
(* device's active peers as the repository then holds them; so, with an    *)
(* output directory configured, the file of a device is the rendering of   *)
(* the repository's current active peers (deactivated and deleted peers    *)
(* left out) once any peer of the device has been persisted.               *)
(***************************************************************************)
C19_FileFollowsPersistence ==
    /\ \A f \in Phases :
          /\ \A d \in Devices, p \in CreateInputs :
                \A k \in NewKeysFor(p) :
                    FollowsPersistence(CreatePeer(World, d, p, k, f), d)
          /\ \A k \in DOMAIN peers, t \in Times :
                \A da \in CallerTimes \cup {peers[k].DeactivatedAt} :
                    FollowsPersistence(
                        UpdatePeer(World, [peers[k] EXCEPT !.DeactivatedAt = da],
                                   t, f),
                        peers[k].DeviceName)
          /\ \A k \in DOMAIN peers :
                FollowsPersistence(DeletePeer(World, peers[k], f),
                                   peers[k].DeviceName)
    /\ config.ConfigDirectoryPath # ""
          => \A d \in Devices :
                \/ cfgFile[d] = Rendered(World, d)
                \/ cfgFile[d] = NoFile /\ PeersOfDevice(World, d) = {}

\* the file on disk lists one active peer and leaves out a deactivated one,
\* and deactivating the listed peer takes it out of the file
C19_Witness ==
    \E k \in DOMAIN peers, j \in DOMAIN peers, t \in Times :
        LET d == peers[k].DeviceName
            r == UpdatePeer(World, DeactivationOf(k, t), t, NoErr)
        IN /\ config.ConfigDirectoryPath # ""
           /\ Active(World, k) /\ Deactivated(World, j)
           /\ peers[j].DeviceName = d
           /\ cfgFile[d] = Rendered(World, d)
           /\ Len(cfgFile[d].body) = 1
           /\ r.err = NoErr
           /\ r.file[d] = Rendered(r, d)
           /\ r.file[d].body = <<>>

\* pre-filled peers that carry a public key and no private key
ForeignPeers == {p \in PrefilledPeers : p.PublicKey # Nil /\ p.PrivateKey = Nil}

(***************************************************************************)
(* C20: CreatePeer of a pre-filled peer with a public key and an empty     *)
(* private key pushes and persists the peer under the supplied public key, *)
(* with the fingerprint of that key as its UID.                            *)
(***************************************************************************)
C20_ForeignPeerKeepsKey ==
    \A d \in Devices, p \in ForeignPeers :
        \A newKey \in NewKeys \ {Nil, p.PublicKey} :
            LET r == CreatePeer(World, d, p, newKey, NoErr)
            IN (r.err = NoErr /\ p.PublicKey \notin UsedKeys)
                  => /\ p.PublicKey \in r.wg[d]
                     /\ Persisted(r, p.PublicKey)
                     /\ r.peers[p.PublicKey].UID = Fingerprint(p.PublicKey)

====
